---------------------------- MODULE Spec2Model ----------------------------
(***************************************************************************)
(* Commitment tree and nullifier subsystem of shadow-drop.                 *)
(*                                                                         *)
(* Two builders exist in the source: the synchronous local one             *)
(* (src/unnamed/part_001, placeholder hash) and the asynchronous           *)
(* delegated one (src/unnamed/part_002, hash computed by a remote          *)
(* service).  Both are modelled here, together with the proof generator,   *)
(* the proof verifier and the field-compatible secret generator.           *)
(*                                                                         *)
(* Every byte string and every bigint is a sequence of integers.  A byte   *)
(* is 0..255; the integers 256.. are marks that no byte equals:            *)
(*   <<256>> \o data \o <<257>>   the digest of data (an ideal hash)       *)
(*   258                          separates the inputs of a service call   *)
(*   <<259>>                      JavaScript's undefined                   *)
(*   <<260>>                      a thrown TypeError                       *)
(* A bigint is its big-endian base-256 digits without leading zeros.       *)
(***************************************************************************)
EXTENDS Integers, Sequences, FiniteSets, TLC

\* The source fixes the depth at 8 (part_001:95, part_002:4); the model is
\* scaled to a smaller tree so that every interleaving can be explored.
TREE_DEPTH == 2

\* How many different outcomes of crypto.getRandomValues a build may see.
MaxSeed == 2

\* How many computeLeafHash calls one run compares.
MaxCalls == 2

VARIABLES
    recipients,      \* the caller's input sequence of recipients
    withSecrets,     \* recipientsWithSecrets, local to a build
    lres,            \* what the local buildMerkleTree returned or threw
    proof,           \* what the last getMerkleProof call returned
    vres,            \* the last verifyMerkleProof call and its outcome
    pc,              \* position of the delegated (async) build
    stage,           \* 0: leaf hashes, L+1: pair hashes of level L
    currentLevel,    \* currentLevel of the delegated build
    leavesBn,        \* leavesBn of the delegated build
    issued,          \* every hash request sent to the service so far
    inflight,        \* requests sent and not yet answered
    results,         \* fulfilled hash promises of the current stage
    dres,            \* what the delegated build returned or threw
    failed,          \* requests whose failure the build was told of
    gmr,             \* what generateMerkleRoot returned to its caller
    secret,          \* last value returned by the masked generateSecret
    secretBn,        \* last secretBn decoded from it
    leafCalls        \* the computeLeafHash calls made, each with its result

vars == <<recipients, withSecrets, lres, proof, vres, pc, stage, currentLevel,
          leavesBn, issued, inflight, results, dres, failed, gmr, secret,
          secretBn, leafCalls>>

localVars == <<lres, proof, vres>>
asyncVars == <<pc, stage, currentLevel, leavesBn, issued, inflight, results,
               dres, failed, gmr>>
secretVars == <<secret, secretBn>>
leafVars == <<leafCalls>>

----------------------------------------------------------------------------
(* Values *)

Undefined == <<259>>
TypeError == <<260>>

Pow2(n) == 2 ^ n

\* 1 << TREE_DEPTH
paddedSize == Pow2(TREE_DEPTH)

\* new Uint8Array(32)
Zero32 == [i \in 1..32 |-> 0]

\* arr[k] of a JavaScript array (0-based): undefined outside the array.
At(arr, k) == IF k + 1 \in DOMAIN arr THEN arr[k + 1] ELSE Undefined

\* JavaScript's % keeps the sign of the dividend.
JsRem2(a) == IF a >= 0 THEN a % 2 ELSE 0 - ((0 - a) % 2)

\* Math.floor(idx / 2)
FloorHalf(idx) == idx \div 2

\* The 32-bit mixing of simpleHash is idealised as a collision-free digest:
\* the digest of data is data sealed between two marks.
simpleHash(data) == <<256>> \o data \o <<257>>

\* TextEncoder().encode("poseidon2") and ("poseidon3")
prefix2 == <<112, 111, 115, 101, 105, 100, 111, 110, 50>>
prefix3 == <<112, 111, 115, 101, 105, 100, 111, 110, 51>>

\* a.length of undefined throws a TypeError.
poseidonHash2(a, b) ==
    IF a = Undefined \/ b = Undefined \/ a = TypeError \/ b = TypeError
    THEN TypeError
    ELSE simpleHash(prefix2 \o a \o b)

poseidonHash3(a, b, c) ==
    IF a = Undefined \/ b = Undefined \/ c = Undefined
    THEN TypeError
    ELSE simpleHash(prefix3 \o a \o b \o c)

\* BigInt of a small number.
RECURSIVE NatToBigInt(_)
NatToBigInt(n) == IF n = 0 THEN <<>> ELSE NatToBigInt(n \div 256) \o <<n % 256>>

\* A JavaScript number with an integer value, or a BigInt: its sign and the
\* big-endian digits of its magnitude.
JsNumber(n) == [neg |-> n < 0, mag |-> NatToBigInt(IF n < 0 THEN 0 - n ELSE n)]

RECURSIVE Reverse(_)
Reverse(q) == IF q = <<>> THEN <<>> ELSE Reverse(Tail(q)) \o <<q[1]>>

\* Little-endian digits times a small factor.
RECURSIVE MulLe(_, _, _)
MulLe(le, m, carry) ==
    IF le = <<>>
    THEN IF carry = 0 THEN <<>>
         ELSE <<carry % 256>> \o MulLe(<<>>, m, carry \div 256)
    ELSE LET t == le[1] * m + carry
         IN  <<t % 256>> \o MulLe(Tail(le), m, t \div 256)

\* BigInt(Math.floor(amount * 1_000_000_000)), for an integer amount whose
\* product a double holds exactly.
AmountLamports(amount) ==
    [amount EXCEPT !.mag =
        Reverse(MulLe(MulLe(MulLe(Reverse(@), 1000, 0), 1000, 0), 1000, 0))]

\* Little-endian digits plus one, the carry out of the last digit dropped.
RECURSIVE AddOneLe(_)
AddOneLe(le) ==
    IF le = <<>> THEN <<>>
    ELSE IF le[1] = 255 THEN <<0>> \o AddOneLe(Tail(le))
    ELSE <<le[1] + 1>> \o Tail(le)

\* The eight bytes amountView.setBigUint64(0, v, true) writes: v modulo 2^64
\* (a negative v in two's complement), little-endian.  It never throws.
setBigUint64(v) ==
    LET le == Reverse(v.mag)
        low == [i \in 1..8 |-> IF i <= Len(le) THEN le[i] ELSE 0]
    IN  IF v.neg THEN AddOneLe([i \in 1..8 |-> 255 - low[i]]) ELSE low

\* computeLeafHash on an amount given as a number.
computeLeafHashOf(wallet, amount, sec) ==
    LET walletBytes == wallet
        amountLamports == AmountLamports(amount)
        amountBytes == setBigUint64(amountLamports)
    IN  poseidonHash3(walletBytes, amountBytes, sec)

computeLeafHash(wallet, amount, sec) ==
    computeLeafHashOf(wallet, JsNumber(amount), sec)

----------------------------------------------------------------------------
(* Inputs *)

\* A 32-byte value all of whose bytes are b.
Fill32(b) == [i \in 1..32 |-> b]

\* The k-th value crypto.getRandomValues returns during one build.
RandomSecret(seed, k) == Fill32((16 * seed + k) % 256)

\* Recipients the caller may pass: wallet (UTF-8 bytes of the wallet
\* string), amount, and an optional pre-assigned secret.
Pool == << [wallet |-> <<65>>, amount |-> 1, secret |-> Fill32(201)],
           [wallet |-> <<66>>, amount |-> 2, secret |-> Fill32(202)],
           [wallet |-> <<65>>, amount |-> 1, secret |-> Undefined],
           [wallet |-> <<65>>, amount |-> 1, secret |-> Fill32(201)] >>

Recipients(n, off) == [k \in 1..n |-> Pool[((k - 1 + off) % Len(Pool)) + 1]]

\* Recipient counts: up to capacity + 1, and twice the capacity.
Counts == (0..(paddedSize + 1)) \cup {2 * paddedSize}

Offsets == 0..(Len(Pool) - 1)

----------------------------------------------------------------------------
(* Local builder, src/unnamed/part_001 *)

\* r.secret || generateSecret(), for every recipient in order.
AssignSecrets(rs, seed) ==
    [k \in 1..Len(rs) |->
        IF rs[k].secret = Undefined
        THEN [rs[k] EXCEPT !.secret = RandomSecret(seed, k)]
        ELSE rs[k]]

\* while (leaves.length < paddedSize) leaves.push(new Uint8Array(32))
PadLeaves(leaves) ==
    IF Len(leaves) < paddedSize
    THEN leaves \o [i \in 1..(paddedSize - Len(leaves)) |-> Zero32]
    ELSE leaves

\* for (j = 0; j < currentLevel.length; j += 2) nextLevel.push(hash(j, j+1))
NextLevel(cur) ==
    [j \in 1..((Len(cur) + 1) \div 2) |->
        poseidonHash2(At(cur, 2 * j - 2), At(cur, 2 * j - 1))]

Throws(level) == \E j \in DOMAIN level : level[j] = TypeError

\* The loop over the levels: the tree so far, or a throw.
RECURSIVE BuildLevels(_, _)
BuildLevels(tree, i) ==
    IF i = TREE_DEPTH THEN [ok |-> TRUE, tree |-> tree]
    ELSE LET next == NextLevel(tree[Len(tree)])
         IN  IF Throws(next) THEN [ok |-> FALSE, tree |-> tree]
             ELSE BuildLevels(Append(tree, next), i + 1)

NoBuild == [status |-> "none", root |-> Undefined, leaves |-> <<>>, tree |-> <<>>]

buildMerkleTree(rs, seed) ==
    LET rws == AssignSecrets(rs, seed)
        leaves == PadLeaves([k \in 1..Len(rws) |->
                     computeLeafHash(rws[k].wallet, rws[k].amount, rws[k].secret)])
        built == BuildLevels(<<leaves>>, 0)
    IN  IF built.ok
        THEN [status |-> "ok",
              root |-> At(built.tree[Len(built.tree)], 0),
              leaves |-> built.tree[1],
              tree |-> built.tree]
        ELSE [NoBuild EXCEPT !.status = "TypeError"]

BuildLocal ==
    /\ lres.status = "none"
    /\ \E seed \in 1..MaxSeed :
          /\ withSecrets' = AssignSecrets(recipients, seed)
          /\ lres' = buildMerkleTree(recipients, seed)
    /\ UNCHANGED <<recipients, proof, vres, asyncVars, secretVars, leafVars>>

----------------------------------------------------------------------------
(* Proof generator and verifier, src/unnamed/part_001 *)

\* idx % 2 === 0 ? idx + 1 : idx - 1
SiblingIdx(idx) == IF JsRem2(idx) = 0 THEN idx + 1 ELSE idx - 1

RECURSIVE ProofSiblings(_, _, _)
ProofSiblings(tree, idx, i) ==
    IF i = TREE_DEPTH THEN <<>>
    ELSE <<At(tree[i + 1], SiblingIdx(idx))>>
            \o ProofSiblings(tree, FloorHalf(idx), i + 1)

getMerkleProof(tree, leafIndex) ==
    [status |-> "ok",
     leafIndex |-> leafIndex,
     siblings |-> ProofSiblings(tree, leafIndex, 0),
     leaf |-> At(tree[1], leafIndex)]

\* The parity test inverted: the sibling taken for the left child when the
\* index is even.
IsRightInverted(idx) == JsRem2(idx) = 0

\* const isRight = idx % 2 === 1
IsRight(idx) == JsRem2(idx) = 1

\* The climb from the leaf: current after the siblings from position i on.
RECURSIVE Climb(_, _, _, _)
Climb(current, idx, siblings, i) ==
    IF i > Len(siblings) THEN current
    ELSE Climb(IF IsRight(idx) THEN poseidonHash2(siblings[i], current)
                               ELSE poseidonHash2(current, siblings[i]),
               FloorHalf(idx), siblings, i + 1)

\* The outcome of verifyMerkleProof: "true", "false", or the TypeError that
\* reading a property of undefined throws.
verifyMerkleProof(root, leaf, leafIndex, siblings) ==
    LET current == Climb(leaf, leafIndex, siblings, 1)
    IN  IF current = TypeError \/ current = Undefined \/ root = Undefined
        THEN "TypeError"
        ELSE IF current = root THEN "true" ELSE "false"

\* One byte of a value changed.
Flip(v) == [v EXCEPT ![2] = (@ + 1) % 256]

\* Leaf indices a caller may ask a proof for or claim to the verifier.
Indices == (0 - 2)..(2 * paddedSize + 1)

\* The functions are pure: one call of each per run shows all they do.
GetProof ==
    /\ lres.status = "ok"
    /\ proof.status = "none"
    /\ \E i \in Indices : proof' = getMerkleProof(lres.tree, i)
    /\ UNCHANGED <<recipients, withSecrets, lres, vres, asyncVars, secretVars, leafVars>>

Call(kind, root, leaf, leafIndex, siblings) ==
    [kind |-> kind, root |-> root, leaf |-> leaf, leafIndex |-> leafIndex,
     siblings |-> siblings,
     out |-> verifyMerkleProof(root, leaf, leafIndex, siblings)]

\* The proof as returned.
VerifyProof ==
    vres' = Call("proof", lres.root, proof.leaf, proof.leafIndex, proof.siblings)

\* The proof with one byte of the leaf changed.
VerifyLeafChanged ==
    /\ proof.leaf # Undefined
    /\ vres' = Call("leaf", lres.root, Flip(proof.leaf), proof.leafIndex,
                    proof.siblings)

\* The proof with one byte of one sibling changed.
VerifySiblingChanged ==
    \E k \in DOMAIN proof.siblings :
        /\ proof.siblings[k] # Undefined
        /\ vres' = Call("sibling", lres.root, proof.leaf, proof.leafIndex,
                        [proof.siblings EXCEPT ![k] = Flip(@)])

\* The proof with another index claimed.
VerifyIndexChanged ==
    \E j \in Indices \ {proof.leafIndex} :
        vres' = Call("index", lres.root, proof.leaf, j, proof.siblings)

\* The proof against another root.
VerifyRootChanged ==
    vres' = Call("root", Flip(lres.root), proof.leaf, proof.leafIndex,
                 proof.siblings)

\* A sibling list of another length: the first m siblings of the proof.
VerifyShort ==
    \E m \in 0..(TREE_DEPTH - 1) :
        vres' = Call("short", lres.root, proof.leaf, proof.leafIndex,
                     SubSeq(proof.siblings, 1, m))

\* No siblings at all, the root itself offered as the leaf.
VerifyRootAsLeaf ==
    vres' = Call("rootAsLeaf", lres.root, lres.root, proof.leafIndex, <<>>)

Verify ==
    /\ proof.status = "ok"
    /\ vres.kind = "none"
    /\ \/ VerifyProof
       \/ VerifyLeafChanged
       \/ VerifySiblingChanged
       \/ VerifyIndexChanged
       \/ VerifyRootChanged
       \/ VerifyShort
       \/ VerifyRootAsLeaf
    /\ UNCHANGED <<recipients, withSecrets, lres, proof, asyncVars, secretVars, leafVars>>

----------------------------------------------------------------------------
(* Delegated builder, src/unnamed/part_002 *)

\* BigInt("0x" + hex): the big-endian digits without their leading zeros.
\* A digest stands for the field element it is.
RECURSIVE StripZeros(_)
StripZeros(b) == IF b # <<>> /\ b[1] = 0 THEN StripZeros(Tail(b)) ELSE b

BytesToBigInt(bytes) == StripZeros(bytes)

\* bigIntToBytes: the hex digits padded on the left to 64, the first 32
\* bytes of them kept.
bigIntToBytes(bn) ==
    IF bn # <<>> /\ bn[1] = 256 THEN bn
    ELSE IF Len(bn) >= 32 THEN SubSeq(bn, 1, 32)
    ELSE [i \in 1..(32 - Len(bn)) |-> 0] \o bn

\* new PublicKey(wallet).toBuffer(): the 32 bytes of the key the wallet
\* string names (the base58 decoding is idealised as left padding).
PublicKeyBuffer(wallet) == [i \in 1..(32 - Len(wallet)) |-> 0] \o wallet

\* secret[31] &= 0x1f
MaskSecret(raw) == [raw EXCEPT ![32] = @ % 32]

\* generateSecret of part_002 on the bytes getRandomValues produced.
generateSecret(raw) == MaskSecret(raw)

AssignSecretsMasked(rs, seed) ==
    [k \in 1..Len(rs) |->
        IF rs[k].secret = Undefined
        THEN [rs[k] EXCEPT !.secret = generateSecret(RandomSecret(seed, k))]
        ELSE rs[k]]

\* The hex string i.toString(16), padded to whole bytes: zero is "00".
\* undefined.toString throws.
HexInput(bn) == IF bn = Undefined THEN TypeError
                ELSE IF bn = <<>> THEN <<0>> ELSE bn

\* The service's hash of the numbers sent, idealised as collision-free.
RECURSIVE Joined(_)
Joined(inputs) ==
    IF Len(inputs) = 0 THEN <<>>
    ELSE IF Len(inputs) = 1 THEN StripZeros(inputs[1])
    ELSE StripZeros(inputs[1]) \o <<258>> \o Joined(Tail(inputs))

Poseidon(inputs) == <<256>> \o Joined(inputs) \o <<257>>

HashFailed == <<261>>

\* A response treated as a success whatever its status.
poseidonHashNoCheck(inputs, ok) == IF ok THEN Poseidon(inputs) ELSE <<>>

\* What poseidonHash makes of the response to a request: the hash, or the
\* thrown "Poseidon Hash Failed".
poseidonHash(inputs, ok) == IF ok THEN Poseidon(inputs) ELSE HashFailed

\* The inputs computeLeafHash sends for one recipient.
LeafInputs(r) ==
    <<HexInput(BytesToBigInt(PublicKeyBuffer(r.wallet))),
      HexInput(NatToBigInt(r.amount)),
      HexInput(BytesToBigInt(r.secret))>>

\* The inputs of the pair hashes of one level.
PairInputs(cur) ==
    [j \in 1..((Len(cur) + 1) \div 2) |->
        <<HexInput(At(cur, 2 * j - 2)), HexInput(At(cur, 2 * j - 1))>>]

\* The requests that go out for a list of inputs: a call whose inputs throw
\* sends nothing.
Requests(st, inputs) ==
    { [stage |-> st, idx |-> j, inputs |-> inputs[j]] :
        j \in { i \in DOMAIN inputs : \A m \in DOMAIN inputs[i] :
                                         inputs[i][m] # TypeError } }

\* while (leavesBn.length < paddedSize) leavesBn.push(0n)
PadLeavesBn(leaves) ==
    IF Len(leaves) < paddedSize
    THEN leaves \o [i \in 1..(paddedSize - Len(leaves)) |-> <<>>]
    ELSE leaves

\* How many promises the Promise.all of the current stage waits for.
Expected == IF stage = 0 THEN Len(recipients) ELSE (Len(currentLevel) + 1) \div 2

\* Promise.all resolved on the first fulfilled promise.
LevelCompleteEarly == Expected = 0 \/ DOMAIN results # {}

\* Promise.all resolves once every promise of the stage is fulfilled.
LevelComplete == DOMAIN results = 1..Expected

\* Results kept in the order the responses arrive.
StoreByArrival(res, r, v) == res @@ ((Cardinality(DOMAIN res) + 1) :> v)

\* Promise.all keeps each result at the position of its promise.
Store(res, r, v) == res @@ (r.idx :> v)

\* The results of the stage as an array.
Settled == [j \in 1..Expected |-> IF j \in DOMAIN results THEN results[j] ELSE Undefined]

\* buildMerkleTree up to its first await: secrets assigned and every leaf
\* hash requested.
StartBuild ==
    /\ pc = "idle"
    /\ \E seed \in 1..MaxSeed :
          LET rws == AssignSecretsMasked(recipients, seed)
              reqs == Requests(0, [k \in 1..Len(rws) |-> LeafInputs(rws[k])])
          IN  /\ withSecrets' = rws
              /\ issued' = reqs
              /\ inflight' = reqs
    /\ pc' = "await"
    /\ stage' = 0
    /\ results' = <<>>
    /\ UNCHANGED <<recipients, currentLevel, leavesBn, dres, failed, gmr,
                   localVars, secretVars, leafVars>>

\* The service answers one request.  While the build awaits the stage of
\* the request, poseidonHash returns the hash into the Promise.all, or throws
\* and so rejects it, which ends the build.  Nothing awaits the answer to a
\* request of a build that has ended.
Respond ==
    \E r \in inflight :
        /\ inflight' = inflight \ {r}
        /\ IF pc = "await" /\ r.stage = stage
           THEN \E ok \in BOOLEAN :
                  LET out == poseidonHash(r.inputs, ok)
                  IN  /\ failed' = IF ok THEN failed ELSE failed \cup {r}
                      /\ IF out = HashFailed
                         THEN /\ pc' = "failed"
                              /\ dres' = [NoBuild EXCEPT
                                            !.status = "Poseidon Hash Failed"]
                              /\ results' = <<>>
                         ELSE /\ results' = Store(results, r, out)
                              /\ UNCHANGED <<pc, dres>>
           ELSE UNCHANGED <<pc, dres, results, failed>>
        /\ UNCHANGED <<recipients, withSecrets, stage, currentLevel, leavesBn,
                       issued, gmr, localVars, secretVars, leafVars>>

\* The build resumes after an await: the leaves are padded or the level is
\* taken over, and the next level's hashes are requested, or the result is
\* returned.
Resume ==
    /\ pc = "await"
    /\ LevelComplete
    /\ LET level == IF stage = 0
                    THEN PadLeavesBn([j \in 1..Expected |->
                            BytesToBigInt(bigIntToBytes(Settled[j]))])
                    ELSE Settled
           inputs == PairInputs(level)
           reqs == Requests(stage + 1, inputs)
       IN  /\ currentLevel' = level
           /\ leavesBn' = IF stage = 0 THEN level ELSE leavesBn
           /\ results' = <<>>
           /\ IF stage = TREE_DEPTH
              THEN /\ pc' = "done"
                   /\ dres' = [status |-> "ok",
                               root |-> bigIntToBytes(At(level, 0)),
                               leaves |-> [j \in DOMAIN leavesBn |->
                                             bigIntToBytes(leavesBn[j])],
                               tree |-> <<>>]
                   /\ UNCHANGED <<stage, issued, inflight>>
              ELSE /\ stage' = stage + 1
                   /\ issued' = issued \cup reqs
                   /\ inflight' = inflight \cup reqs
                   /\ IF Cardinality(reqs) < Len(inputs)
                      THEN /\ pc' = "failed"
                           /\ dres' = [NoBuild EXCEPT !.status = "TypeError"]
                      ELSE UNCHANGED <<pc, dres>>
    /\ UNCHANGED <<recipients, withSecrets, failed, gmr, localVars, secretVars, leafVars>>

\* generateMerkleRoot: const { root } = await buildMerkleTree(recipients);
\* return root.
GenerateMerkleRootReturn ==
    /\ pc = "done"
    /\ pc' = "returned"
    /\ gmr' = dres.root
    /\ dres' = NoBuild
    /\ UNCHANGED <<recipients, withSecrets, stage, currentLevel, leavesBn,
                   issued, inflight, results, failed, localVars, secretVars, leafVars>>

----------------------------------------------------------------------------
(* Field-compatible secret generator, src/unnamed/part_002 *)

\* Byte values crypto.getRandomValues may produce for the first byte, the
\* last byte, and all the bytes between.
ByteSamples == {0, 31, 32, 128, 255}

RandomBytes(first, mid, last) ==
    [i \in 1..32 |-> IF i = 1 THEN first ELSE IF i = 32 THEN last ELSE mid]

GenerateSecret ==
    /\ \E first \in ByteSamples, mid \in ByteSamples, last \in ByteSamples :
          secret' = generateSecret(RandomBytes(first, mid, last))
    /\ UNCHANGED <<recipients, withSecrets, secretBn, localVars, asyncVars, leafVars>>

\* const secretBn = BigInt("0x" + Buffer.from(secret).toString("hex")), as
\* computeLeafHash and computeNullifier decode the secret.
DecodeSecret ==
    /\ secret # <<>>
    /\ secretBn' = BytesToBigInt(secret)
    /\ UNCHANGED <<recipients, withSecrets, secret, localVars, asyncVars, leafVars>>

----------------------------------------------------------------------------
(* Leaf committer, src/unnamed/part_001 *)

\* Amounts a caller may pass, each an integer whose product with 10^9 a
\* double holds exactly: 0, 1, 2, -1 and 2^55.
LeafAmounts ==
    { JsNumber(0), JsNumber(1), JsNumber(2), JsNumber(0 - 1),
      [neg |-> FALSE, mag |-> <<128, 0, 0, 0, 0, 0, 0>>] }

LeafWallets == { <<65>>, <<66>> }

LeafSecrets == { Fill32(201), Fill32(202) }

\* One call of computeLeafHash.  Nothing in it throws for these inputs.
ComputeLeaf ==
    /\ Cardinality(leafCalls) < MaxCalls
    /\ \E w \in LeafWallets, a \in LeafAmounts, sec \in LeafSecrets :
          leafCalls' = leafCalls \cup
              { [wallet |-> w, amount |-> a, secret |-> sec,
                 lamports |-> AmountLamports(a),
                 status |-> "ok",
                 leaf |-> computeLeafHashOf(w, a, sec)] }
    /\ UNCHANGED <<recipients, withSecrets, localVars, asyncVars, secretVars>>

----------------------------------------------------------------------------
(* Specifications *)

NoProof == [status |-> "none", leafIndex |-> 0, siblings |-> <<>>, leaf |-> Undefined]
NoVerify == [kind |-> "none", root |-> Undefined, leaf |-> Undefined,
             leafIndex |-> 0, siblings |-> <<>>, out |-> "none"]

IdleLocal == lres = NoBuild /\ proof = NoProof /\ vres = NoVerify /\ withSecrets = <<>>
IdleAsync ==
    /\ pc = "idle" /\ stage = 0 /\ currentLevel = <<>> /\ leavesBn = <<>>
    /\ issued = {} /\ inflight = {} /\ results = <<>>
    /\ dres = NoBuild /\ failed = {} /\ gmr = Undefined
IdleSecret == secret = <<>> /\ secretBn = Undefined /\ leafCalls = {}

InitLocal ==
    /\ \E n \in Counts, off \in Offsets : recipients = Recipients(n, off)
    /\ IdleLocal /\ IdleAsync /\ IdleSecret

NextLocal == BuildLocal \/ GetProof \/ Verify

SpecLocal == InitLocal /\ [][NextLocal]_vars

\* Recipient counts of the delegated build: up to capacity + 1.
AsyncCounts == 0..(paddedSize + 1)

InitAsync ==
    /\ \E n \in AsyncCounts, off \in Offsets : recipients = Recipients(n, off)
    /\ IdleLocal /\ IdleAsync /\ IdleSecret

NextAsync == StartBuild \/ Respond \/ Resume \/ GenerateMerkleRootReturn

SpecAsync == InitAsync /\ [][NextAsync]_vars

InitSecret == recipients = <<>> /\ IdleLocal /\ IdleAsync /\ IdleSecret

NextSecret == GenerateSecret \/ DecodeSecret

SpecSecret == InitSecret /\ [][NextSecret]_vars

InitLeaf == recipients = <<>> /\ IdleLocal /\ IdleAsync /\ IdleSecret

NextLeaf == ComputeLeaf

SpecLeaf == InitLeaf /\ [][NextLeaf]_vars

----------------------------------------------------------------------------
(* Properties of the local builder, the proof generator and the verifier *)

InRange(i) == i \in 0..(paddedSize - 1)

\* A tree was returned for a recipient list that fits the capacity.
BuiltWithinCapacity == lres.status = "ok" /\ Len(recipients) <= paddedSize

\* C1: round-trip proof law.  For every tree built over at most 2^depth
\* recipients and every leaf index i in [0, 2^depth), real or padding,
\* verify(root, proof.leaf, i, proof.siblings) on the proof getProof returned
\* for i is true.
C1_RoundTrip ==
    (BuiltWithinCapacity /\ vres.kind = "proof" /\ InRange(vres.leafIndex))
        => vres.out = "true"

\* A real leaf at an odd index and a padding leaf at an even index both
\* verified.
C1_Witness ==
    /\ BuiltWithinCapacity /\ vres.kind = "proof" /\ vres.out = "true"
    /\ Len(recipients) = 2 /\ vres.leafIndex = 1
    /\ vres.leaf # Zero32 /\ vres.siblings[1] # Zero32

\* C2: capacity boundary.  A build with exactly 2^depth recipients succeeds
\* and adds no padding leaf; a build with more than 2^depth recipients never
\* returns a root.
C2_CapacityBoundary ==
    /\ (lres.status # "none" /\ Len(recipients) = paddedSize)
          => (lres.status = "ok" /\ \A k \in DOMAIN lres.leaves :
                                        lres.leaves[k] # Zero32)
    /\ (lres.status # "none" /\ Len(recipients) > paddedSize)
          => lres.status # "ok"

\* C6: tamper sensitivity.  With the root of a built tree and the proof
\* getProof returned for an index in range, verify returns false once the
\* leaf, one sibling, or the claimed index is changed.
C6_TamperRejected ==
    (BuiltWithinCapacity /\ InRange(proof.leafIndex)
        /\ vres.kind \in {"leaf", "sibling", "index"})
        => vres.out = "false"

\* C7: invalid proof index.  getProof and verify called with a leaf index
\* outside [0, 2^depth) end in an InvalidProofIndexError; getProof returns no
\* proof for it.
C7_InvalidIndexRejected ==
    /\ (proof.status # "none" /\ ~InRange(proof.leafIndex))
          => proof.status = "InvalidProofIndexError"
    /\ (vres.kind # "none" /\ ~InRange(vres.leafIndex))
          => vres.out = "InvalidProofIndexError"

\* C8: outcomes of verify.  A root mismatch on a well-formed input is the
\* plain boolean false; a sibling list whose length is not the depth is never
\* accepted.
C8_VerifyOutcomes ==
    /\ (BuiltWithinCapacity /\ vres.kind = "root" /\ InRange(vres.leafIndex))
          => vres.out = "false"
    /\ (vres.kind # "none" /\ Len(vres.siblings) # TREE_DEPTH)
          => vres.out # "true"

----------------------------------------------------------------------------
(* Properties of the delegated builder *)

\* The tree computed one hash after another, in index order.
SeqLeavesBn(rws) ==
    PadLeavesBn([k \in 1..Len(rws) |-> Poseidon(LeafInputs(rws[k]))])

SeqLevel(cur) == [j \in 1..(Len(cur) \div 2) |-> Poseidon(PairInputs(cur)[j])]

RECURSIVE SeqRoot(_, _)
SeqRoot(cur, i) == IF i = TREE_DEPTH THEN cur[1] ELSE SeqRoot(SeqLevel(cur), i + 1)

Answered == issued \ inflight

\* C3: level barrier.  Whenever a hash request of a stage has been issued,
\* every request of every earlier stage (the leaf hashes before the level-0
\* pairs, level L before level L+1) has been answered.
C3_LevelBarrier ==
    \A r \in issued, q \in issued : q.stage < r.stage => q \in Answered

\* Level-1 pair hashes are in flight and the leaf and level-0 hashes are all
\* answered.
C3_Witness ==
    /\ pc = "await" /\ stage = 2
    /\ \E r \in inflight : r.stage = 2
    /\ \E q \in Answered : q.stage = 1
    /\ \E q \in Answered : q.stage = 0

\* C4: all-or-nothing build.  Once a hash call has failed, the build has
\* ended in an error, has returned no root and no leaves, holds no value in
\* place of the failed hash, and no request of a later stage is ever issued.
C4_AllOrNothing ==
    failed # {} =>
        /\ pc = "failed"
        /\ dres.status \notin {"ok", "none"}
        /\ dres.root = Undefined /\ dres.leaves = <<>> /\ gmr = Undefined
        /\ \A f \in failed :
              /\ \A r \in issued : r.stage <= f.stage
              /\ f.stage = stage => f.idx \notin DOMAIN results

\* A pair hash failed while another request of its level was still in
\* flight.
C4_Witness ==
    /\ \E f \in failed : f.stage = 1
    /\ \E r \in inflight : r.stage = 1
    /\ pc = "failed"

\* C5: secret retention.  After the build has returned, the secret that went
\* into every recipient's leaf is still with the caller: in the caller's
\* input or in what the build returned.
C5_SecretsRetained ==
    pc \in {"done", "returned"} =>
        \A k \in DOMAIN recipients :
            \/ recipients[k].secret = withSecrets[k].secret
            \/ withSecrets[k].secret = dres.root
            \/ withSecrets[k].secret = gmr
            \/ \E j \in DOMAIN dres.leaves : dres.leaves[j] = withSecrets[k].secret

\* C9: completion-order independence.  Whatever the order of the responses,
\* the build that returns gives leaf k to recipient k and returns the root of
\* the tree computed in index order from the recipients and their secrets.
C9_OrderIndependent ==
    pc = "done" =>
        /\ dres.status = "ok"
        /\ dres.leaves = [j \in 1..paddedSize |->
                            bigIntToBytes(SeqLeavesBn(withSecrets)[j])]
        /\ dres.root = bigIntToBytes(SeqRoot(SeqLeavesBn(withSecrets), 0))

\* A build of three recipients with three different leaves returned.
C9_Witness ==
    /\ pc = "done" /\ Len(recipients) = 3
    /\ dres.leaves[1] # dres.leaves[2] /\ dres.leaves[2] # dres.leaves[3]
    /\ dres.leaves[1] # dres.leaves[3] /\ dres.leaves[4] = Zero32

----------------------------------------------------------------------------
(* Properties of the secret generator *)

\* a < b for two bigints.
RECURSIVE LexLess(_, _)
LexLess(a, b) ==
    IF a = <<>> THEN FALSE
    ELSE IF a[1] # b[1] THEN a[1] < b[1]
    ELSE LexLess(Tail(a), Tail(b))

BigLess(a, b) == Len(a) < Len(b) \/ (Len(a) = Len(b) /\ LexLess(a, b))

\* 2^253: the byte 0x20 and 31 zero bytes.
TwoPow253 == <<32>> \o [i \in 1..31 |-> 0]

\* C10: field-compatible secret.  A secret of the masking generator, decoded
\* as 32 big-endian bytes, is below 2^253.
C10_SecretBelowField ==
    secretBn # Undefined => BigLess(secretBn, TwoPow253)

----------------------------------------------------------------------------
(* Properties of the leaf committer *)

\* 2^64: the byte 1 and eight zero bytes.
TwoPow64 == <<1>> \o [i \in 1..8 |-> 0]

\* The amount is negative, or its lamports do not fit 64 bits.
OutOfWidth(c) == c.amount.neg \/ ~BigLess(c.lamports.mag, TwoPow64)

\* C11: amount encoding.  computeLeaf given a negative amount, or one beyond
\* the 64-bit width of the denomination, ends in a MalformedInputError; and
\* two calls with the same wallet and secret and different amounts never
\* commit to the same leaf input.
C11_AmountEncoding ==
    /\ \A c \in leafCalls : OutOfWidth(c) => c.status = "MalformedInputError"
    /\ \A c \in leafCalls, d \in leafCalls :
          (c.wallet = d.wallet /\ c.secret = d.secret /\ c.amount # d.amount
              /\ c.status = "ok" /\ d.status = "ok")
          => c.leaf # d.leaf

============================================================================
